---- MODULE Spec2Model ----
(***************************************************************************)
(* A model of gitwrapper (src/gitwrapper/__init__.py): the Git class, the  *)
(* setup decorator and is_git_repository.                                  *)
(*                                                                         *)
(* A Python str is a sequence of one-character strings, so that prefix,    *)
(* suffix, slicing and splitting are computed as the code computes them.   *)
(* The process state is the working directory, the GIT_DIR environment     *)
(* variable and the directory tree; every git subprocess is an oracle that *)
(* answers with an exit status, a stdout text and a stderr text.           *)
(***************************************************************************)
EXTENDS Integers, Sequences, FiniteSets, TLC

VARIABLES
    dirs,       \* the directories of the filesystem (canonical absolute paths)
    cwd,        \* os.getcwd() of the calling process
    environ,    \* os.environ: <<>> when GIT_DIR is unset, <<gitdir>> when set
    last,       \* the record of the last call: what was called and how it ended
    pending     \* the call the client has prepared and is about to make, if any

vars == <<dirs, cwd, environ, last, pending>>

----------------------------------------------------------------------------
(* Bounds of the model *)

\* longest positional string argument enumerated for the setup decorator
MaxArgLen == 4
\* number of entries `git status --porcelain` reports
MaxEntries == 2

----------------------------------------------------------------------------
(* str operations *)

\* F(e), with e computed once: a local variable of the code
With(e, F(_)) == CHOOSE y \in {F(x) : x \in {e}} : TRUE

StartsWith(s, p) == Len(p) <= Len(s) /\ SubSeq(s, 1, Len(p)) = p

EndsWith(s, p) == Len(p) <= Len(s) /\ SubSeq(s, Len(s) - Len(p) + 1, Len(s)) = p

\* s[n:]
SliceFrom(s, n) == SubSeq(s, n + 1, Len(s))

RECURSIVE LStrip(_, _)
\* s.lstrip(c) for a set of characters c
LStrip(s, c) == IF s # <<>> /\ Head(s) \in c THEN LStrip(Tail(s), c) ELSE s

RECURSIVE RStrip(_, _)
\* s.rstrip(c) for a set of characters c
RStrip(s, c) ==
    IF s # <<>> /\ s[Len(s)] \in c THEN RStrip(SubSeq(s, 1, Len(s) - 1), c) ELSE s

\* s.rfind(c) + 1: the 1-based index of the last c in s, 0 when there is none
RFind(s, c) ==
    LET hits == {i \in 1..Len(s) : s[i] = c}
    IN  IF hits = {} THEN 0 ELSE CHOOSE i \in hits : \A j \in hits : j <= i

\* s.find(c) + 1
Find(s, c) ==
    LET hits == {i \in 1..Len(s) : s[i] = c}
    IN  IF hits = {} THEN 0 ELSE CHOOSE i \in hits : \A j \in hits : i <= j

RECURSIVE Split(_, _)
\* s.split(c): the pieces between the separators, empty pieces included
Split(s, c) ==
    With(Find(s, c), LAMBDA i :
        IF i = 0 THEN <<s>>
        ELSE <<SubSeq(s, 1, i - 1)>>
                 \o With(SubSeq(s, i + 1, Len(s)), LAMBDA rest : Split(rest, c)))

\* list(filter(None, xs)): the non-empty elements
FilterNone(xs) == SelectSeq(xs, LAMBDA x : x # <<>>)

\* needle in hay, for texts
Contains(hay, needle) ==
    \E i \in 0..(Len(hay) - Len(needle)) : SubSeq(hay, i + 1, i + Len(needle)) = needle

----------------------------------------------------------------------------
(* posixpath *)

Sep == <<"/">>
Dot == <<".">>
DotDot == <<".", ".">>
DotGit == <<".", "g", "i", "t">>
Refs == <<"r", "e", "f", "s">>
Objects == <<"o", "b", "j", "e", "c", "t", "s">>

isabs(p) == StartsWith(p, Sep)

\* posixpath.join(a, b)
join(a, b) ==
    IF isabs(b) THEN b
    ELSE IF a = <<>> \/ EndsWith(a, Sep) THEN a \o b
    ELSE a \o Sep \o b

\* posixpath.dirname(p)
dirname(p) ==
    LET head == SubSeq(p, 1, RFind(p, "/"))
    IN  IF head # <<>> /\ LStrip(head, {"/"}) # <<>> THEN RStrip(head, {"/"}) ELSE head

\* posixpath.basename(p)
basename(p) == SliceFrom(p, RFind(p, "/"))

\* the names of a path, in order; empty names (repeated separators) dropped
Components(p) == FilterNone(Split(p, "/"))

RECURSIVE Render(_)
\* the absolute path made of the names ns
Render(ns) ==
    IF ns = <<>> THEN Sep
    ELSE IF Len(ns) = 1 THEN Sep \o ns[1]
    ELSE Render(SubSeq(ns, 1, Len(ns) - 1)) \o Sep \o ns[Len(ns)]

\* The symbolic links of the filesystem: link -> target (a canonical directory).
\* /x -> /r and /r/x -> /rx
Symlinks ==
    (<<"/", "x">> :> <<"/", "r">>) @@ (<<"/", "r", "/", "x">> :> <<"/", "r", "x">>)

RECURSIVE JoinRealPath(_, _)
\* posixpath._joinrealpath: walk the names of rest from the directory whose
\* names are path, resolving "." and ".." physically and following links
JoinRealPath(path, rest) ==
    IF rest = <<>> THEN path
    ELSE LET name == Head(rest)
             newpath == Append(path, name)
         IN  IF name = Dot THEN JoinRealPath(path, Tail(rest))
             ELSE IF name = DotDot
             THEN JoinRealPath(IF path = <<>> THEN <<>>
                               ELSE SubSeq(path, 1, Len(path) - 1), Tail(rest))
             ELSE IF Render(newpath) \in DOMAIN Symlinks
             THEN JoinRealPath(Components(Symlinks[Render(newpath)]), Tail(rest))
             ELSE JoinRealPath(newpath, Tail(rest))

\* os.path.realpath(p) in a process whose working directory is wd
realpath(p, wd) ==
    With(JoinRealPath(IF isabs(p) THEN <<>> ELSE Components(wd), Components(p)),
         LAMBDA ns : Render(ns))

\* os.path.isdir(p): follows links
isdir(p, wd, ds) == realpath(p, wd) \in ds

\* os.path.lexists(p): does not follow a link in the last name
lexists(p, wd, ds) ==
    LET q == join(realpath(dirname(p), wd), basename(p))
    IN  q \in DOMAIN Symlinks \/ realpath(q, wd) \in ds

----------------------------------------------------------------------------
(* Values *)

\* Python values that cross the interface, as <<type, payload>>
PyNone == [t |-> "none", v |-> <<>>]
PyBool(b) == [t |-> "bool", v |-> IF b THEN <<"T">> ELSE <<"F">>]
PyStr(s) == [t |-> "str", v |-> s]
\* an int, carried by its decimal digits
PyInt(digits) == [t |-> "int", v |-> digits]
\* bytes: iterating them yields ints
PyBytes(s) == [t |-> "bytes", v |-> s]
\* a list of strs, carried as its elements joined by ","
PyList(s) == [t |-> "list", v |-> s]

NoObj == [path |-> <<>>, bare |-> FALSE, gitdir |-> <<>>]

\* How a call ends: outcome is "return" or the name of the exception raised,
\* value the value returned, payload the args of the exception, recv the
\* positional arguments the wrapped method received, runs the git subprocesses
\* started (each with the working directory and GIT_DIR it ran with), cwd and
\* env the working directory and os.environ the call leaves behind.
Returned(value, recv, runs, wd, env) ==
    [outcome |-> "return", value |-> value, payload |-> <<>>, recv |-> recv,
     runs |-> runs, cwd |-> wd, env |-> env]

Raised(exc, payload, recv, runs, wd, env) ==
    [outcome |-> exc, value |-> PyNone, payload |-> payload, recv |-> recv,
     runs |-> runs, cwd |-> wd, env |-> env]

\* the record of a call: what was called (kw: the keyword argument given, if
\* any), on what, and how it ended
Call(op, kw, self, args, r, wd0, env0) ==
    [op |-> op, kw |-> kw, self |-> self, args |-> args, recv |-> r.recv, runs |-> r.runs,
     outcome |-> r.outcome, value |-> r.value, payload |-> r.payload,
     cwd0 |-> wd0, env0 |-> env0]

NoCall == Call("none", "", NoObj, <<>>, Returned(PyNone, <<>>, <<>>, <<>>, <<>>), <<>>, <<>>)

----------------------------------------------------------------------------
(* Git.__init__ *)

\* LooksBare without the test for the objects directory
LooksBare_NoObjects(path, wd, ds) ==
    /\ EndsWith(path, DotGit)
    /\ isdir(join(path, Refs), wd, ds)

\* the test of the elif branch: a bare repository
LooksBare(path, wd, ds) ==
    /\ EndsWith(path, DotGit)
    /\ isdir(join(path, Refs), wd, ds)
    /\ isdir(join(path, Objects), wd, ds)

\* Git(path): the constructed object, or NoObj when GitError is raised
GitInit(path, wd, ds) ==
    LET self_path == realpath(path, wd)
        path_git == join(self_path, DotGit)
    IN  IF isdir(path_git, wd, ds)
        THEN [path |-> self_path, bare |-> FALSE, gitdir |-> path_git]
        ELSE IF LooksBare(self_path, wd, ds)
        THEN [path |-> self_path, bare |-> TRUE, gitdir |-> self_path]
        ELSE NoObj

----------------------------------------------------------------------------
(* Git.make_relative and the setup decorator *)

\* the path make_relative tests: the directory resolved, the last name kept
Anchored(path, wd) == join(realpath(dirname(path), wd), basename(path))

\* the test make_relative raises GitError on
InRepository(self, p) == p = self.path \/ StartsWith(p, self.path \o Sep)

\* self.make_relative(path): ok is FALSE when it raises GitError
make_relative(self, path, wd) ==
    With(Anchored(path, wd), LAMBDA p :
        IF ~InRepository(self, p) THEN [ok |-> FALSE, v |-> path]
        ELSE [ok |-> TRUE, v |-> LStrip(SliceFrom(p, Len(self.path)), {"/"})])

\* try: return self.make_relative(arg); except self.GitError: return arg
\* GitError is a name of the module and no attribute of Git, so that evaluating
\* the except clause, which happens when make_relative has raised, raises
\* AttributeError.
TryRelative(self, arg) ==
    With(make_relative(self, arg, self.path), LAMBDA r :
        IF r.ok THEN [exc |-> "", v |-> r.v] ELSE [exc |-> "AttributeError", v |-> arg])

RECURSIVE JoinWith(_, _)
\* c.join(xs)
JoinWith(xs, c) ==
    IF xs = <<>> THEN <<>>
    ELSE IF Len(xs) = 1 THEN xs[1]
    ELSE xs[1] \o c \o JoinWith(Tail(xs), c)

\* the first exception of a sequence of results, "" when there is none
FirstExc(rs) ==
    IF \A i \in 1..Len(rs) : rs[i].exc = "" THEN ""
    ELSE rs[CHOOSE i \in 1..Len(rs) :
                /\ rs[i].exc # ""
                /\ \A j \in 1..(i - 1) : rs[j].exc = ""].exc

\* wrapper.make_relative(arg): None and bools are returned, a str goes through
\* self.make_relative, anything else is iterated over, which raises TypeError
\* when it is no iterable
WrapperArg(self, arg) ==
    IF arg.t \in {"none", "bool"} THEN [exc |-> "", a |-> arg]
    ELSE IF arg.t = "str"
    THEN With(TryRelative(self, arg.v), LAMBDA r : [exc |-> r.exc, a |-> PyStr(r.v)])
    ELSE IF arg.t = "list"
    THEN With(Split(arg.v, ","), LAMBDA items :
         With([i \in 1..Len(items) |-> TryRelative(self, items[i])] \o <<>>, LAMBDA rs :
             [exc |-> FirstExc(rs),
              a |-> PyList(JoinWith([i \in 1..Len(items) |-> rs[i].v], <<",">>))]))
    ELSE [exc |-> "TypeError", a |-> arg]

\* rel_args = list(map(make_relative, args))
RelArgs(self, args) ==
    With([i \in 1..Len(args) |-> WrapperArg(self, args[i])] \o <<>>, LAMBDA rs :
        [exc |-> FirstExc(rs), recv |-> [i \in 1..Len(args) |-> rs[i].a]])

\* the working directory after the wrapped method has ended, by return or by
\* exception: finally: os.chdir(orig_cwd)
AfterMethod(self, orig_cwd) == orig_cwd

\* the working directory when processing the arguments raised: the wrapper has
\* done os.chdir(self.path) and is not yet inside its try
AfterArgError(self, orig_cwd) == self.path

\* The setup decorator around Method, which takes the processed arguments and
\* runs with working directory self.path and GIT_DIR self.gitdir.
Wrapper(self, args, orig_cwd, Method(_)) ==
    With(RelArgs(self, args), LAMBDA ra :
        IF ra.exc # ""
        THEN Raised(ra.exc, <<>>, <<>>, <<>>,
                    AfterArgError(self, orig_cwd), <<self.gitdir>>)
        ELSE [Method(ra.recv) EXCEPT !.cwd = AfterMethod(self, orig_cwd),
                                     !.env = <<self.gitdir>>])

----------------------------------------------------------------------------
(* git subprocesses *)

\* what a git subprocess answers, and the process state it ran in
Ran(g, wd, env) ==
    [rc |-> g.rc, out |-> g.out, err |-> g.err, cwd |-> wd, env |-> env]

\* the exit statuses git ends with
ExitCodes == {0, 1, 128}

\* what git may answer: on success nothing on stderr, on failure a message
Answers(outs, errs) ==
    {g \in [rc : ExitCodes, out : outs, err : errs \cup {<<>>}] : g.rc = 0 <=> g.err = <<>>}

\* stdout when stderr=STDOUT shares the pipe: both texts, stdout's first
Merged(g) == g.out \o g.err

\* the second argument of the GitError that _getoutput raises
ErronousInput == <<"erronous input">>

Whitespace == {" ", "\n", "\t"}

\* SystemBody without the test of the exit status
SystemBody_Unchecked(self, recv, check_returncode, g) ==
    Returned([t |-> "int", v |-> g.rc], recv, <<Ran(g, self.path, <<self.gitdir>>)>>,
             self.path, <<self.gitdir>>)

\* the body of Git._system, given the processed arguments
SystemBody(self, recv, check_returncode, g) ==
    LET run == Ran(g, self.path, <<self.gitdir>>)
    IN  IF (\E i \in 1..Len(recv) : recv[i].t # "str")
        THEN \* subprocess.run rejects an argv that holds a non-str
             Raised("TypeError", <<>>, recv, <<>>, self.path, <<self.gitdir>>)
        ELSE IF check_returncode /\ g.rc # 0
        THEN Raised("GitError", <<g.err>>, recv, <<run>>, self.path, <<self.gitdir>>)
        ELSE Returned([t |-> "int", v |-> g.rc], recv, <<run>>, self.path, <<self.gitdir>>)

\* Git._system(command, *args, check_returncode=...)
_system(self, args, check_returncode, wd, g) ==
    Wrapper(self, args, wd, LAMBDA recv : SystemBody(self, recv, check_returncode, g))

\* the text subprocess.run captures as output.stdout
Captured(g, stderr) == IF stderr = "STDOUT" THEN Merged(g) ELSE g.out

\* the body of Git._getoutput, given the processed arguments
GetoutputBody(self, recv, check_returncode, stderr, g) ==
    LET run == Ran(g, self.path, <<self.gitdir>>)
    IN  IF (\E i \in 1..Len(recv) : recv[i].t # "str")
        THEN Raised("TypeError", <<>>, recv, <<>>, self.path, <<self.gitdir>>)
        ELSE IF check_returncode /\ g.rc # 0
        THEN Raised("GitError", <<Captured(g, stderr), ErronousInput>>, recv, <<run>>,
                    self.path, <<self.gitdir>>)
        ELSE Returned(PyStr(RStrip(Captured(g, stderr), Whitespace)), recv, <<run>>,
                      self.path, <<self.gitdir>>)

\* Git._getoutput(command, *args, check_returncode=..., stderr=...)
_getoutput(self, args, check_returncode, stderr, wd, g) ==
    Wrapper(self, args, wd,
            LAMBDA recv : GetoutputBody(self, recv, check_returncode, stderr, g))

----------------------------------------------------------------------------
(* The methods built on _system *)

\* a str of one word that holds no "/": the word is carried as one symbol
Word(w) == PyStr(<<w>>)
Words(ws) == [i \in 1..Len(ws) |-> Word(ws[i])]

\* the methods that return nothing: the value of _system is dropped
Dropped(r) == IF r.outcome = "return" THEN [r EXCEPT !.value = PyNone] ELSE r

\* The methods that hand *args or their parameters to one _system call, and
\* the git command line each starts with.
SystemArgv ==
    [read_tree |-> <<"read-tree">>,
     update_index |-> <<"update-index", "--remove">>,
     update_index_refresh |-> <<"update-index", "-q", "--unmerged", "--refresh">>,
     add |-> <<"add">>,
     checkout |-> <<"checkout">>,
     checkout_index |-> <<"checkout-index", "-a", "-f">>,
     update_ref |-> <<"update-ref">>,
     rm_cached |-> <<"rm", "--ignore-unmatch", "--cached", "--quiet", "-f", "-r">>,
     merge |-> <<"merge">>,
     reset |-> <<"reset">>,
     branch_delete |-> <<"branch", "-D">>,
     branch |-> <<"branch">>,
     prune |-> <<"prune">>,
     repack |-> <<"repack">>,
     fetch |-> <<"fetch">>]

SystemMethods == DOMAIN SystemArgv

\* how many positional arguments each takes: -1 for *args
SystemArity ==
    [m \in SystemMethods |->
        IF m \in {"update_index_refresh", "checkout_index", "prune"} THEN 0
        ELSE IF m \in {"rm_cached", "merge", "branch_delete"} THEN 1
        ELSE IF m = "fetch" THEN 2
        ELSE -1]

\* read_tree, update_index, ..., fetch
SystemMethod(m, self, args, wd, g) ==
    Dropped(_system(self, Words(SystemArgv[m]) \o args, TRUE, wd, g))

\* Git.remove_ref(ref): update_ref("-d", join("refs", ref)); join raises
\* TypeError on a ref that is no str, before any decorated method is entered
remove_ref(self, ref, wd, env, g) ==
    IF ref.t # "str" THEN Raised("TypeError", <<>>, <<>>, <<>>, wd, env)
    ELSE SystemMethod("update_ref", self,
                      <<Word("-d"), PyStr(join(Refs, ref.v))>>, wd, g)

\* Git.remove_tag(name): remove_ref("tags/" + name)
remove_tag(self, name, wd, env, g) ==
    IF name.t # "str" THEN Raised("TypeError", <<>>, <<>>, <<>>, wd, env)
    ELSE remove_ref(self, PyStr(<<"t", "a", "g", "s", "/">> \o name.v), wd, env, g)

\* Git.commit(paths, msg, update_all, verbose): command is a list, which the
\* decorator keeps a list and subprocess.run rejects
commit(self, paths, msg, update_all, verbose, wd, g) ==
    LET command == PyList(JoinWith(<<<<"commit">>>>
                                   \o (IF update_all THEN <<<<"-a">>>> ELSE <<>>)
                                   \o (IF verbose THEN <<<<"-v">>>> ELSE <<>>), <<",">>))
    IN  Dropped(IF msg.t = "str" /\ msg.v # <<>>
                THEN _system(self, <<command, Word("-m"), msg>> \o paths, TRUE, wd, g)
                ELSE _system(self, <<command>> \o paths, TRUE, wd, g))

\* Git.raw(command, *args): None when git succeeded, else its exit status
raw(self, args, wd, g) ==
    With(_system(self, args, FALSE, wd, g), LAMBDA r :
        IF r.outcome = "return" /\ r.value.v = 0 THEN [r EXCEPT !.value = PyNone] ELSE r)

NeedsUpdate == <<"needs update">>

\* line.rsplit(':', 1)[0]
BeforeLastColon(line) ==
    IF RFind(line, ":") = 0 THEN line ELSE SubSeq(line, 1, RFind(line, ":") - 1)

\* Git.update_index_all(): runs git itself, in the caller's working directory
\* and environment, and hands the stale files to update_index
update_index_all(self, wd, env, g1, g2) ==
    LET run == Ran(g1, wd, env)
        lines == Split(Merged(g1), "\n")
        stale == SelectSeq(lines, LAMBDA l : EndsWith(l, NeedsUpdate))
        files == [i \in 1..Len(stale) |-> PyStr(BeforeLastColon(stale[i]))]
    IN  IF g1.rc = 0 THEN Returned(PyNone, <<>>, <<run>>, wd, env)
        ELSE With(SystemMethod("update_index", self, files, wd, g2), LAMBDA r :
                 [r EXCEPT !.runs = <<run>> \o r.runs])

----------------------------------------------------------------------------
(* The methods built on _getoutput *)

\* a returned list of strs
PyLines(xs) == [t |-> "lines", v |-> xs]

\* s.splitlines()
SplitLines(s) ==
    LET parts == Split(s, "\n")
    IN  IF s = <<>> THEN <<>>
        ELSE IF parts[Len(parts)] = <<>> THEN SubSeq(parts, 1, Len(parts) - 1)
        ELSE parts

RECURSIVE Squeeze(_)
\* every whitespace character of s as a line break
Squeeze(s) ==
    IF s = <<>> THEN <<>>
    ELSE (IF Head(s) \in Whitespace THEN <<"\n">> ELSE <<Head(s)>>) \o Squeeze(Tail(s))

\* s.split(): the words between runs of whitespace
SplitWords(s) == FilterNone(Split(Squeeze(s), "\n"))

\* s.strip()
Strip(s) == LStrip(RStrip(s, Whitespace), Whitespace)

\* s.index("\n\n") + 1, 0 when it raises ValueError
IndexBlankLine(s) ==
    LET hits == {i \in 1..(Len(s) - 1) : s[i] = "\n" /\ s[i + 1] = "\n"}
    IN  IF hits = {} THEN 0 ELSE CHOOSE i \in hits : \A j \in hits : i <= j

NoLocalChanges == <<"No local changes to save">>
NoStashFound == <<"No stash found">>

\* The methods that hand their arguments to one _getoutput call with the
\* defaults check_returncode=True, stderr=STDOUT, and the git command line each
\* starts with.
GetoutputArgv ==
    [cat_file |-> <<"cat-file">>,
     write_tree |-> <<"write-tree">>,
     symbolic_ref |-> <<"symbolic-ref">>,
     name_rev |-> <<"name-rev">>,
     show |-> <<"show">>,
     list_unmerged |-> <<"diff", "--name-only", "--diff-filter=U">>,
     get_commit_log |-> <<"cat-file commit">>,
     ls_files |-> <<"ls-files">>,
     list_tags |-> <<"tag">>,
     stash |-> <<"stash">>,
     remote |-> <<"remote">>]

GetoutputMethods == DOMAIN GetoutputArgv

\* how many positional arguments each takes: -1 for *args
GetoutputArity ==
    [m \in GetoutputMethods |->
        IF m \in {"write_tree", "list_unmerged", "list_tags", "stash"} THEN 0
        ELSE IF m \in {"name_rev", "get_commit_log", "symbolic_ref"} THEN 1
        ELSE -1]

\* what each method makes of the text _getoutput returned
Processed(m, r) ==
    LET s == r.value.v
        words == Split(s, " ")
    IN  IF m = "name_rev"
        THEN IF Len(words) < 2 THEN [r EXCEPT !.outcome = "IndexError", !.value = PyNone]
             ELSE [r EXCEPT !.value = PyStr(words[2])]
        ELSE IF m = "list_unmerged"
        THEN [r EXCEPT !.value = PyLines(IF s # <<>> THEN Split(s, "\n") ELSE <<>>)]
        ELSE IF m = "get_commit_log"
        THEN IF IndexBlankLine(s) = 0
             THEN [r EXCEPT !.outcome = "ValueError", !.value = PyNone]
             ELSE [r EXCEPT !.value = PyStr(SliceFrom(s, IndexBlankLine(s) + 1))]
        ELSE IF m = "ls_files" THEN [r EXCEPT !.value = PyLines(SplitLines(s))]
        ELSE IF m = "list_tags" THEN [r EXCEPT !.value = PyLines(SplitWords(s))]
        ELSE IF m = "stash"
        THEN IF StartsWith(s, NoLocalChanges) THEN [r EXCEPT !.value = PyBool(FALSE)] ELSE r
        ELSE r

\* cat_file, write_tree, ..., remote (list_all=False)
GetoutputMethod(m, self, args, wd, g) ==
    With(_getoutput(self, Words(GetoutputArgv[m]) \o args, TRUE, "STDOUT", wd, g), LAMBDA r :
        IF r.outcome = "return" THEN Processed(m, r) ELSE r)

\* Git.remote(list_all=True): result.split('\n').strip() raises AttributeError
remote_list_all(self, wd, g) ==
    With(_getoutput(self, Words(<<"remote", "-v">>), TRUE, "STDOUT", wd, g), LAMBDA r :
        IF r.outcome = "return"
        THEN [r EXCEPT !.outcome = "AttributeError", !.value = PyNone] ELSE r)

\* try: return self._getoutput(...); except GitError: return None
NoneOnGitError(r) ==
    IF r.outcome = "GitError" THEN [r EXCEPT !.outcome = "return", !.value = PyNone, !.payload = <<>>]
    ELSE r

\* Git.rev_parse(*args)
rev_parse(self, args, wd, g) ==
    With(_getoutput(self, <<Word("rev-parse")>> \o args, TRUE, "STDOUT", wd, g),
         LAMBDA r : NoneOnGitError(r))

\* Git.merge_base(a, b)
merge_base(self, args, wd, g) ==
    With(_getoutput(self, <<Word("merge-base")>> \o args, TRUE, "STDOUT", wd, g),
         LAMBDA r : NoneOnGitError(r))

\* Git.show_ref(ref): the second word of the output; IndexError is not caught
show_ref(self, args, wd, g) ==
    With(_getoutput(self, <<Word("show-ref")>> \o args, TRUE, "STDOUT", wd, g), LAMBDA r :
        IF r.outcome # "return" THEN NoneOnGitError(r)
        ELSE IF Len(Split(r.value.v, " ")) < 2
        THEN [r EXCEPT !.outcome = "IndexError", !.value = PyNone]
        ELSE [r EXCEPT !.value = PyStr(Split(r.value.v, " ")[2])])

\* Git.rev_list(*args, check_returncode=...)
rev_list(self, args, check_returncode, wd, g) ==
    With(_getoutput(self, <<Word("rev-list")>> \o args, check_returncode, "STDOUT", wd, g),
         LAMBDA r :
            IF r.outcome # "return" THEN r
            ELSE [r EXCEPT !.value = PyLines(FilterNone(Split(r.value.v, "\n")))])

\* Git.describe(*args): decorated itself, around _getoutput with
\* check_returncode=False, stderr=PIPE
describe(self, args, wd, g) ==
    Wrapper(self, args, wd,
        LAMBDA recv :
            With(_getoutput(self, <<Word("describe")>> \o recv, FALSE, "PIPE", self.path, g),
                 LAMBDA r :
                    IF r.outcome # "return" THEN r
                    ELSE [r EXCEPT !.value = PyLines(SplitLines(r.value.v))]))

\* Git.log(*args, oneline=..., count=...): decorated itself, around _getoutput
\* with stderr=PIPE; count is carried by its decimal digit
log(self, args, oneline, count, wd, g) ==
    Wrapper(self, args, wd,
        LAMBDA recv :
            _getoutput(self,
                       <<Word("log")>> \o (IF oneline THEN <<Word("--oneline")>> ELSE <<>>)
                           \o (IF count # "0" THEN <<PyStr(<<"-", count>>)>> ELSE <<>>) \o recv,
                       TRUE, "PIPE", self.path, g))

\* Git.commit_tree(id, log, parents): decorated; Popen opens binary pipes, so
\* p.stdin.write(log) raises TypeError on the str that reaches it, after the
\* subprocess has been started
commit_tree(self, args, wd, g) ==
    Wrapper(self, args, wd,
        LAMBDA recv :
            IF recv[1].t # "str" \/ (Len(recv) > 2 /\ recv[3].t \in {"int", "bytes"})
            THEN Raised("TypeError", <<>>, recv, <<>>, self.path, <<self.gitdir>>)
            ELSE Raised("TypeError", <<>>, recv, <<Ran(g, self.path, <<self.gitdir>>)>>,
                        self.path, <<self.gitdir>>))

\* Git.mktree_empty(): not decorated; "git mktree failed: " + p.stderr.read()
\* adds bytes to a str
mktree_empty(self, wd, env, g) ==
    IF g.rc # 0 THEN Raised("TypeError", <<>>, <<>>, <<Ran(g, wd, env)>>, wd, env)
    ELSE Returned(PyBytes(Strip(g.out)), <<>>, <<Ran(g, wd, env)>>, wd, env)

\* Git.get_latest_tag()
get_latest_tag(self, wd, g1, g2) ==
    With(rev_list(self, Words(<<"--tags", "--max-count=1">>), FALSE, wd, g1), LAMBDA rl :
        IF rl.outcome # "return" THEN rl
        ELSE IF Len(rl.value.v) # 1 THEN [rl EXCEPT !.value = PyBool(FALSE)]
        ELSE With(describe(self, <<Word("--tags"), PyStr(rl.value.v[1])>>, rl.cwd, g2),
                  LAMBDA d :
                     LET r == [d EXCEPT !.runs = rl.runs \o d.runs]
                     IN  IF r.outcome # "return" THEN r
                         ELSE IF r.value.v = <<>>
                         THEN [r EXCEPT !.outcome = "IndexError", !.value = PyNone]
                         ELSE [r EXCEPT !.value = PyStr(r.value.v[1])]))

RevParseFailed == <<"rev_parse failed!">>

\* Git.get_latest_commit(short=...)
get_latest_commit(self, short, wd, g) ==
    With(rev_parse(self, (IF short THEN <<Word("--short")>> ELSE <<>>) \o <<Word("HEAD")>>,
                   wd, g),
         LAMBDA r :
            IF r.value.t = "none"
            THEN [r EXCEPT !.outcome = "GitError", !.payload = <<RevParseFailed>>]
            ELSE [r EXCEPT !.value = PyStr(Strip(r.value.v))])

\* s.split("\t", 1)
SplitTab(s) ==
    IF Find(s, "\t") = 0 THEN <<s>>
    ELSE <<SubSeq(s, 1, Find(s, "\t") - 1), SliceFrom(s, Find(s, "\t"))>>

\* Git.status(*paths)
status(self, paths, wd, g1, g2) ==
    With(SystemMethod("update_index_refresh", self, <<>>, wd, g1), LAMBDA r1 :
        IF r1.outcome # "return" THEN r1
        ELSE With(_getoutput(self, Words(<<"diff-index", "--ignore-submodules",
                                           "--name-status", "HEAD">>) \o paths,
                             TRUE, "STDOUT", r1.cwd, g2),
                  LAMBDA r2 :
                     LET r == [r2 EXCEPT !.runs = r1.runs \o r2.runs]
                         out == r2.value.v
                     IN  IF r.outcome # "return" THEN r
                         ELSE [r EXCEPT !.value =
                                  PyLines(IF out # <<>>
                                          THEN With(Split(out, "\n"), LAMBDA ls :
                                                   [i \in 1..Len(ls) |-> SplitTab(ls[i])])
                                          ELSE <<>>)]))

\* stati: the category and the prefix of an entry of git status --porcelain
Stati ==
    << <<"uncommited", <<"M", " ", " ">> >>,
       <<"unstaged", <<" ", "M", " ">> >>,
       <<"untracked", <<"?", "?", " ">> >> >>

\* files_sorted as status_full creates it
NoFiles == [uncomitted |-> <<>>, unstaged |-> <<>>, untracked |-> <<>>]

\* _check_status(item): <<status, filename>>, or <<>> when it raises GitError
CheckStatus(item) ==
    LET hits == {i \in 1..Len(Stati) : StartsWith(item, Stati[i][2])}
    IN  IF hits = {} THEN <<>>
        ELSE LET i == CHOOSE h \in hits : \A j \in hits : h <= j
             IN  <<Stati[i][1], SliceFrom(item, Len(Stati[i][2]))>>

Unrecognized(item) == <<"Unrecongnized git status prefix in ">> \o item

RECURSIVE SortFiles(_, _)
\* the loop over items: files_sorted[status].append(filename)
SortFiles(items, files_sorted) ==
    IF items = <<>> THEN [exc |-> "", payload |-> <<>>, files |-> files_sorted]
    ELSE LET c == CheckStatus(Head(items))
         IN  IF c = <<>>
             THEN [exc |-> "GitError", payload |-> <<Unrecognized(Head(items))>>,
                   files |-> files_sorted]
             ELSE IF c[1] \notin DOMAIN files_sorted
             THEN [exc |-> "KeyError", payload |-> <<>>, files |-> files_sorted]
             ELSE SortFiles(Tail(items),
                            [files_sorted EXCEPT ![c[1]] = Append(@, c[2])])

\* Git.status_full(simple=...)
status_full(self, simple, wd, g) ==
    With(_getoutput(self, Words(<<"status", "--porcelain">>), TRUE, "STDOUT", wd, g), LAMBDA r :
        IF r.outcome # "return" THEN r
        ELSE With(FilterNone(Split(r.value.v, "\n")), LAMBDA items :
            IF simple THEN [r EXCEPT !.value = PyBool(Len(items) = 0)]
            ELSE With(SortFiles(items, NoFiles), LAMBDA sorted :
                IF sorted.exc # ""
                THEN [r EXCEPT !.outcome = sorted.exc, !.payload = sorted.payload,
                               !.value = PyNone]
                ELSE [r EXCEPT !.value = [t |-> "dict", v |-> sorted.files]])))

WrongCompared == <<"compared does not contain 1 or 2 elements">>

\* Git.list_changed_files(compared, *paths): compared is a str or a tuple of
\* strs (carried as a list)
list_changed_files(self, compared, paths, wd, g1, g2) ==
    With(SystemMethod("update_index_refresh", self, <<>>, wd, g1), LAMBDA r1 :
    With(Split(compared.v, ","), LAMBDA cs :
        LET argv == IF Len(cs) = 2
                    THEN Words(<<"diff-tree", "-r", "--name-only">>)
                         \o <<PyStr(cs[1]), PyStr(cs[2])>>
                    ELSE Words(<<"diff-index", "--ignore-submodules", "-r", "--name-only">>)
                         \o <<PyStr(cs[1])>>
        IN  IF r1.outcome # "return" THEN r1
            ELSE IF compared.t = "str"
            THEN \* _compared = [_compared] reads the local before it is bound
                 [r1 EXCEPT !.outcome = "UnboundLocalError"]
            ELSE IF Len(cs) \notin {1, 2}
            THEN [r1 EXCEPT !.outcome = "GitError", !.payload = <<WrongCompared>>]
            ELSE With(_getoutput(self, argv \o paths, TRUE, "STDOUT", r1.cwd, g2), LAMBDA r2 :
                     LET r == [r2 EXCEPT !.runs = r1.runs \o r2.runs]
                     IN  IF r.outcome # "return" THEN r
                         ELSE [r EXCEPT !.value =
                                  PyLines(IF r2.value.v # <<>>
                                          THEN Split(r2.value.v, "\n") ELSE <<>>)])))

HexDigits == {"0", "1", "2", "3", "4", "5", "6", "7", "8", "9", "a", "b", "c", "d", "e", "f"}

\* the group of '^[0-9a-f]+ refs/%s/(.*)' % refpath in line, <<>> when the
\* line does not match
RefMatch(line, refpath) ==
    LET rest == LStrip(line, HexDigits)
        pre == <<" ">> \o Refs \o Sep \o refpath \o Sep
    IN  IF rest # line /\ StartsWith(rest, pre) THEN <<SliceFrom(rest, Len(pre))>> ELSE <<>>

\* Git.list_refs(refpath): `e == ''` compares an exception with a str and is
\* never true, so every GitError is raised again
list_refs(self, refpath, wd, g) ==
    With(_getoutput(self, <<Word("show-ref"), Word("--"), refpath>>, TRUE, "STDOUT", wd, g),
         LAMBDA r :
            IF r.outcome # "return" THEN r
            ELSE With(SelectSeq(SplitLines(r.value.v),
                                LAMBDA l : RefMatch(l, refpath.v) # <<>>),
                      LAMBDA hits :
                         [r EXCEPT !.value =
                             PyLines([i \in 1..Len(hits) |-> RefMatch(hits[i], refpath.v)[1]])]))

Heads == <<"h", "e", "a", "d", "s">>

\* Git.list_heads()
list_heads(self, wd, g) == list_refs(self, PyStr(Heads), wd, g)

\* Git.stash_pop(): False when git says there is no stash
stash_pop(self, wd, g) ==
    With(_getoutput(self, Words(<<"stash", "pop">>), TRUE, "STDOUT", wd, g), LAMBDA r :
        IF r.outcome = "GitError" /\ StartsWith(r.payload[1], NoStashFound)
        THEN [r EXCEPT !.outcome = "return", !.value = PyBool(FALSE), !.payload = <<>>]
        ELSE r)

----------------------------------------------------------------------------
(* is_git_repository and Git.init_create *)

\* is_git_repository(path): the right operand of `or` reads self, a name the
\* function does not have, and raises NameError when it is evaluated
is_git_repository(path, wd, env, ds) ==
    LET p == realpath(path, wd)
        path_git == join(p, DotGit)
    IN  IF isdir(path_git, wd, ds) THEN Returned(PyBool(TRUE), <<>>, <<>>, wd, env)
        ELSE Raised("NameError", <<>>, <<>>, <<>>, wd, env)

\* a returned Git object
PyGit(obj) == [t |-> "Git", v |-> obj]

NotARepository == <<"Not a git repository">>

\* the directories after os.mkdir(path), when path does not exist
AfterMkdir(path, wd, ds) ==
    IF lexists(path, wd, ds) THEN ds ELSE ds \cup {realpath(path, wd)}

\* the directories after a successful git --git-dir init_path init
AfterInit(init_path, wd, ds) ==
    LET gd == realpath(init_path, wd)
    IN  ds \cup {gd, join(gd, Refs), join(gd, Objects)}

\* Git.init_create(path, bare=...): the result, with the directories it leaves
init_create(path, bare, wd, env, ds, g) ==
    LET parent == realpath(dirname(path), wd)
        made == AfterMkdir(path, wd, ds)
        init_path == IF bare THEN path ELSE join(path, DotGit)
        run == Ran(g, wd, env)
        inited == AfterInit(init_path, wd, made)
        obj == GitInit(path, wd, inited)
    IN  IF ~lexists(path, wd, ds) /\ parent \notin ds
        THEN [res |-> Raised("FileNotFoundError", <<>>, <<>>, <<>>, wd, env), dirs |-> ds]
        ELSE IF g.rc # 0
        THEN [res |-> Raised("GitError", <<Merged(g)>>, <<>>, <<run>>, wd, env), dirs |-> made]
        ELSE IF obj = NoObj
        THEN [res |-> Raised("GitError", <<NotARepository>>, <<>>, <<run>>, wd, env),
              dirs |-> inited]
        ELSE [res |-> Returned(PyGit(obj), <<>>, <<run>>, wd, env), dirs |-> inited]

----------------------------------------------------------------------------
(* The filesystem and the inputs *)

\* The directories at the start: a repository at /, a work tree /r with a
\* subdirectory, a bare repository /b.git, a half-made one /h.git, and the
\* plain directories /rx and /w.
BaseDirs ==
    {Render(ns) : ns \in
        {<<>>, <<DotGit>>, <<<<"w">>>>,
         <<<<"r">>>>, <<<<"r">>, DotGit>>, <<<<"r">>, DotGit, Refs>>,
         <<<<"r">>, DotGit, Objects>>, <<<<"r">>, <<"r">>>>,
         <<<<"r", "x">>>>,
         <<<<"b">> \o DotGit>>, <<<<"b">> \o DotGit, Refs>>, <<<<"b">> \o DotGit, Objects>>,
         <<<<"h">> \o DotGit>>, <<<<"h">> \o DotGit, Refs>>}}

StartDir == <<"/", "w">>
WorkTree == <<"/", "r">>
BareRepo == <<"/", "b">> \o DotGit

\* the Git objects the client holds: one per path it opened
Repos(paths, wd, ds) == {GitInit(q, wd, ds) : q \in paths} \ {NoObj}

\* the objects whose methods are called
Selves == Repos({WorkTree, BareRepo}, cwd, dirs)

\* a path inside /r, one outside it that shares the prefix, an int, and the
\* texts git answers with
InsidePath == PyStr(<<"/", "r", "/", "r">>)
OutsidePath == PyStr(<<"/", "r", "x">>)
Five == PyInt(<<"5">>)
CallArgs == {InsidePath, OutsidePath, Five}

\* the positional arguments tried for a method of the given arity
ArgsFor(arity) ==
    IF arity = 0 THEN {<<>>}
    ELSE IF arity = 1 THEN {<<a>> : a \in CallArgs}
    ELSE IF arity = 2 THEN {<<a, Word("master")>> : a \in CallArgs}
    ELSE {<<>>} \cup {<<a>> : a \in CallArgs}

Fatal == <<"fatal: error">>
SomeOutput == <<"a", " ", "b", "\n", "\n", "c", "\n">>

SystemAnswers == Answers({<<>>}, {Fatal})
OutputAnswers == Answers({<<>>, SomeOutput}, {Fatal})

\* The client makes a call once it has looked at how the one before ended; the
\* call ends, leaving the process state and the record of it.
Finish(op, kw, self, args, result) ==
    /\ last.op = NoCall.op
    /\ \E r \in {result} :
        /\ cwd' = r.cwd
        /\ environ' = r.env
        /\ last' = Call(op, kw, self, args, r, cwd, environ)
    /\ UNCHANGED <<dirs, pending>>

\* the client has looked at how the last call ended and drops the record
Resume ==
    /\ last.op # NoCall.op
    /\ last' = NoCall
    /\ UNCHANGED <<dirs, cwd, environ, pending>>

NoPending == [self |-> NoObj, args |-> <<>>]

----------------------------------------------------------------------------
(* The calls *)

CallSystemMethod ==
    \E m \in SystemMethods, self \in Selves, g \in SystemAnswers :
        \E args \in ArgsFor(SystemArity[m]) :
            Finish(m, "", self, args, SystemMethod(m, self, args, cwd, g))

CallRemoveRef ==
    \E self \in Selves, g \in SystemAnswers, ref \in CallArgs :
        Finish("remove_ref", "", self, <<ref>>, remove_ref(self, ref, cwd, environ, g))

CallRemoveTag ==
    \E self \in Selves, g \in SystemAnswers, name \in CallArgs :
        Finish("remove_tag", "", self, <<name>>, remove_tag(self, name, cwd, environ, g))

CallCommit ==
    \E self \in Selves, g \in SystemAnswers, msg \in {PyNone, Word("msg")},
       update_all \in BOOLEAN :
        Finish("commit", IF update_all THEN "update_all=True" ELSE "", self, <<PyNone, msg>>,
               commit(self, <<>>, msg, update_all, FALSE, cwd, g))

CallRaw ==
    \E self \in Selves, g \in SystemAnswers, args \in ArgsFor(-1) :
        Finish("raw", "", self, <<Word("gc")>> \o args,
               raw(self, <<Word("gc")>> \o args, cwd, g))

CallUpdateIndexAll ==
    \E self \in Selves, g2 \in SystemAnswers,
       g1 \in Answers({<<>>, <<"f", ":", " ">> \o NeedsUpdate \o <<"\n">>}, {Fatal}) :
        Finish("update_index_all", "", self, <<>>, update_index_all(self, cwd, environ, g1, g2))

CallGetoutputMethod ==
    \E m \in GetoutputMethods, self \in Selves, g \in OutputAnswers :
        \E args \in ArgsFor(GetoutputArity[m]) :
            Finish(m, "", self, args, GetoutputMethod(m, self, args, cwd, g))

CallStash ==
    \E self \in Selves, g \in Answers({NoLocalChanges \o <<"\n">>}, {Fatal}) :
        Finish("stash", "", self, <<>>, GetoutputMethod("stash", self, <<>>, cwd, g))

CallRemoteListAll ==
    \E self \in Selves, g \in OutputAnswers :
        Finish("remote", "list_all=True", self, <<>>, remote_list_all(self, cwd, g))

CallRevParse ==
    \E self \in Selves, g \in OutputAnswers, args \in ArgsFor(-1) :
        Finish("rev_parse", "", self, args, rev_parse(self, args, cwd, g))

CallMergeBase ==
    \E self \in Selves, g \in OutputAnswers, args \in ArgsFor(2) :
        Finish("merge_base", "", self, args, merge_base(self, args, cwd, g))

CallShowRef ==
    \E self \in Selves, g \in OutputAnswers, args \in ArgsFor(1) :
        Finish("show_ref", "", self, args, show_ref(self, args, cwd, g))

CallRevList ==
    \E self \in Selves, g \in OutputAnswers, args \in ArgsFor(-1), check \in BOOLEAN :
        Finish("rev_list", IF check THEN "" ELSE "check_returncode=False", self, args,
               rev_list(self, args, check, cwd, g))

CallDescribe ==
    \E self \in Selves, g \in OutputAnswers, args \in ArgsFor(-1) :
        Finish("describe", "", self, args, describe(self, args, cwd, g))

CallLog ==
    \E self \in Selves, g \in OutputAnswers, args \in ArgsFor(-1), count \in {"0", "3"} :
        Finish("log", IF count = "0" THEN "" ELSE "count=3", self, args, log(self, args, FALSE, count, cwd, g))

CallCommitTree ==
    \E self \in Selves, g \in OutputAnswers,
       message \in {Word("msg"), PyBytes(<<"msg">>)} :
        Finish("commit_tree", "", self, <<Word("tree"), message>>,
               commit_tree(self, <<Word("tree"), message>>, cwd, g))

CallMktreeEmpty ==
    \E self \in Selves, g \in Answers({<<"a", "\n">>}, {Fatal}) :
        Finish("mktree_empty", "", self, <<>>, mktree_empty(self, cwd, environ, g))

CallGetLatestTag ==
    \E self \in Selves, g1 \in Answers({<<>>, <<"a", "\n">>}, {Fatal}), g2 \in OutputAnswers :
        Finish("get_latest_tag", "", self, <<>>, get_latest_tag(self, cwd, g1, g2))

CallGetLatestCommit ==
    \E self \in Selves, g \in OutputAnswers, short \in BOOLEAN :
        Finish("get_latest_commit", IF short THEN "" ELSE "short=False", self, <<>>, get_latest_commit(self, short, cwd, g))

CallStatus ==
    \E self \in Selves, g1 \in SystemAnswers, g2 \in OutputAnswers, paths \in ArgsFor(-1) :
        Finish("status", "", self, paths, status(self, paths, cwd, g1, g2))

CallListChangedFiles ==
    \E self \in Selves, g1 \in SystemAnswers, g2 \in OutputAnswers,
       compared \in {Word("HEAD"), PyList(<<"HEAD">>), PyList(<<"a", ",", "b">>),
                     PyList(<<"a", ",", "b", ",", "c">>)} :
        Finish("list_changed_files", "", self, <<compared>>,
               list_changed_files(self, compared, <<>>, cwd, g1, g2))

RefLine == <<"a", " ">> \o Refs \o Sep \o Heads \o Sep \o <<"m", "\n">>

CallListRefs ==
    \E self \in Selves, g \in Answers({<<>>, RefLine}, {Fatal}), refpath \in {PyStr(Heads), Five} :
        Finish("list_refs", "", self, <<refpath>>, list_refs(self, refpath, cwd, g))

CallListHeads ==
    \E self \in Selves, g \in Answers({<<>>, RefLine}, {Fatal}) :
        Finish("list_heads", "", self, <<>>, list_heads(self, cwd, g))

CallStashPop ==
    \E self \in Selves, g \in Answers({<<>>, SomeOutput}, {Fatal, NoStashFound}) :
        Finish("stash_pop", "", self, <<>>, stash_pop(self, cwd, g))

Entries ==
    {<<"M", " ", " ", "f">>, <<" ", "M", " ", "f">>, <<"?", "?", " ", "f">>,
     <<"A", " ", " ", "f">>}

RECURSIVE Reports(_)
\* what git status --porcelain prints for at most n entries
Reports(n) ==
    IF n = 0 THEN {<<>>}
    ELSE {<<>>} \cup {e \o <<"\n">> \o rest : e \in Entries, rest \in Reports(n - 1)}

CallStatusFull ==
    \E self \in Selves, g \in Answers(Reports(MaxEntries), {Fatal}), simple \in BOOLEAN :
        Finish("status_full", IF simple THEN "" ELSE "simple=False", self, <<>>,
               status_full(self, simple, cwd, g))

----------------------------------------------------------------------------
(* Opening and creating repositories *)

\* Git(path), as a call
Git(path, wd, env, ds) ==
    LET obj == GitInit(path, wd, ds)
    IN  IF obj = NoObj
        THEN Raised("GitError", <<NotARepository>>, <<>>, <<>>, wd, env)
        ELSE Returned(PyGit(obj), <<>>, <<>>, wd, env)

NewDir == <<"/", "n">>
NewBare == <<"/", "n">> \o DotGit

\* the paths repositories are opened at: /, /w, /r, /r/, the link /x, /r/.git,
\* /r/r, /rx, /b.git, b.git, ., /h.git, /n, /n.git, /n/.git
CtorPaths ==
    {Sep, StartDir, WorkTree, WorkTree \o Sep, <<"/", "x">>, join(WorkTree, DotGit),
     <<"/", "r", "/", "r">>, <<"/", "r", "x">>, BareRepo, <<"b">> \o DotGit, Dot,
     <<"/", "h">> \o DotGit, NewDir, NewBare, join(NewDir, DotGit)}

\* the paths repositories are created at: /n, /n.git and /q/n, whose parent
\* does not exist
InitPaths == {NewDir, NewBare, <<"/", "q", "/", "n">>}

Construct ==
    \E path \in CtorPaths, wd \in {cwd} :
        Finish("Git", "", NoObj, <<PyStr(path)>>, Git(path, wd, environ, dirs))

CallIsGitRepository ==
    \E path \in CtorPaths, wd \in {cwd} :
        Finish("is_git_repository", "", NoObj, <<PyStr(path)>>,
               is_git_repository(path, wd, environ, dirs))

CallInitCreate ==
    \E path \in InitPaths, bare \in BOOLEAN, g \in Answers({<<"Initialized">>}, {Fatal}) :
        LET ic == init_create(path, bare, cwd, environ, dirs, g)
        IN  /\ last.op = NoCall.op
            /\ dirs' = ic.dirs
            /\ last' = Call("init_create", IF bare THEN "bare=True" ELSE "", NoObj,
                            <<PyStr(path)>>, ic.res, cwd, environ)
            /\ UNCHANGED <<cwd, environ, pending>>

----------------------------------------------------------------------------
(* The positional arguments of a decorated method *)

ArgChars == {"/", "r", "x", "."}

RECURSIVE Strings(_)
\* the strs of at most n characters
Strings(n) ==
    IF n = 0 THEN {<<>>}
    ELSE LET shorter == Strings(n - 1)
         IN  shorter \cup {Append(t, c) : t \in {u \in shorter : Len(u) = n - 1}, c \in ArgChars}

\* the positional arguments tried: every short str, None, the bools, an int,
\* bytes and a list of two strs
ArgValues ==
    {PyStr(t) : t \in Strings(MaxArgLen)}
        \cup {PyNone, PyBool(TRUE), PyBool(FALSE), Five, PyBytes(<<"r">>),
              PyList(<<"/", "r", "/", "r", ",", "x">>)}

\* the client has prepared self._system("add", arg) and makes the call
CallPending ==
    /\ pending # NoPending
    /\ \E g \in SystemAnswers :
        \E r \in {_system(pending.self, pending.args, TRUE, cwd, g)} :
            /\ cwd' = r.cwd
            /\ environ' = r.env
            /\ last' = Call("_system", "", pending.self, pending.args, r, cwd, environ)
    /\ pending' = NoPending
    /\ UNCHANGED dirs

----------------------------------------------------------------------------
(* Specifications *)

\* the process starts in /w with GIT_DIR unset and no call prepared
Init ==
    /\ dirs = BaseDirs
    /\ cwd = StartDir
    /\ environ = <<>>
    /\ last = NoCall
    /\ pending = NoPending

\* the methods of Git objects opened at /r and /b.git, called in any order
Next ==
    \/ CallSystemMethod
    \/ CallRemoveRef
    \/ CallRemoveTag
    \/ CallCommit
    \/ CallRaw
    \/ CallUpdateIndexAll
    \/ CallGetoutputMethod
    \/ CallStash
    \/ CallRemoteListAll
    \/ CallRevParse
    \/ CallMergeBase
    \/ CallShowRef
    \/ CallRevList
    \/ CallDescribe
    \/ CallLog
    \/ CallCommitTree
    \/ CallMktreeEmpty
    \/ CallGetLatestTag
    \/ CallGetLatestCommit
    \/ CallStatus
    \/ CallStatusFull
    \/ CallListChangedFiles
    \/ CallListRefs
    \/ CallListHeads
    \/ CallStashPop
    \/ Resume

Spec == Init /\ [][Next]_vars

\* repositories are opened, tested and created, from / or from /w
InitRepo ==
    /\ dirs = BaseDirs
    /\ cwd \in {StartDir, Sep}
    /\ environ = <<>>
    /\ last = NoCall
    /\ pending = NoPending

NextRepo ==
    \/ Construct
    \/ CallIsGitRepository
    \/ CallInitCreate
    \/ Resume

SpecRepo == InitRepo /\ [][NextRepo]_vars

\* one call of a decorated method, for every positional argument: made on the
\* repository at /, on the work tree /r or on the bare /b.git
InitArgs ==
    /\ dirs = BaseDirs
    /\ cwd = StartDir
    /\ environ = <<>>
    /\ last = NoCall
    /\ pending \in {[self |-> o, args |-> <<Word("add"), a>>] :
                       o \in Repos({Sep, WorkTree, BareRepo}, StartDir, BaseDirs),
                       a \in ArgValues}

NextArgs == CallPending

SpecArgs == InitArgs /\ [][NextArgs]_vars

----------------------------------------------------------------------------
(* Properties *)

\* some git subprocess of the last call exited with a non-zero status
SomeRunFailed == \E i \in 1..Len(last.runs) : last.runs[i].rc # 0

\* the last git subprocess of the last call
LastRun == last.runs[Len(last.runs)]

\* the methods that run git through _system or _getoutput with
\* check_returncode=True and let the GitError through
CheckedMethods ==
    SystemMethods \cup {"remove_ref", "remove_tag"}
        \cup (GetoutputMethods \ {"stash"}) \cup {"remote", "log", "status", "status_full",
              "list_changed_files", "list_refs", "list_heads", "get_latest_commit"}

\* the methods that run a git subprocess
GitMethods ==
    CheckedMethods \cup {"stash", "raw", "rev_parse", "merge_base", "show_ref", "describe",
                         "rev_list", "get_latest_tag", "stash_pop", "update_index_all",
                         "commit_tree", "mktree_empty"}

\* C1 as stated: every method that runs a git subprocess ends by raising
\* GitError, and never returns a value, whenever that subprocess exits with a
\* non-zero status.
C1_EveryMethodRaises ==
    (last.op \in GitMethods /\ SomeRunFailed) => last.outcome = "GitError"

\* C1 amended: when a git subprocess exits non-zero, the methods that run it
\* through _system or _getoutput with check_returncode=True and do not catch
\* GitError raise GitError and return nothing (so do stash, rev_list with
\* check_returncode left True, and stash_pop unless git said "No stash found");
\* raw returns the exit status; rev_parse, merge_base and show_ref return None;
\* describe and rev_list(check_returncode=False) return the lines of the
\* output; get_latest_tag never raises GitError; update_index_all raises
\* GitError only when its update_index fails; commit_tree and mktree_empty
\* raise TypeError.
C1_CheckedMethodsRaise ==
    SomeRunFailed =>
        /\ last.op \in CheckedMethods \cup {"stash"} => last.outcome = "GitError"
        /\ (last.op = "rev_list" /\ last.kw = "") => last.outcome = "GitError"
        /\ (last.op = "rev_list" /\ last.kw # "") =>
                last.outcome = "return" /\ last.value.t = "lines"
        /\ last.op = "raw" =>
                /\ last.outcome = "return"
                /\ last.value.t = "int"
                /\ last.value.v = LastRun.rc
        /\ last.op \in {"rev_parse", "merge_base", "show_ref"} =>
                last.outcome = "return" /\ last.value = PyNone
        /\ last.op = "describe" => last.outcome = "return" /\ last.value.t = "lines"
        /\ last.op = "get_latest_tag" => last.outcome \in {"return", "IndexError"}
        /\ last.op = "stash_pop" =>
                \/ last.outcome = "GitError"
                \/ /\ last.outcome = "return"
                   /\ last.value = PyBool(FALSE)
                   /\ StartsWith(LastRun.out \o LastRun.err, NoStashFound)
        /\ last.op = "update_index_all" =>
                IF LastRun.rc # 0 /\ Len(last.runs) = 2 THEN last.outcome = "GitError"
                ELSE last.outcome \in {"return", "GitError"}
        /\ last.op \in {"commit_tree", "mktree_empty"} => last.outcome = "TypeError"

\* C1 witness: prune on a repository where git exits 128 ended with GitError
C1_Witness ==
    /\ last.op = "prune"
    /\ last.runs # <<>>
    /\ LastRun.rc = 128
    /\ last.outcome = "GitError"

\* C2 as stated: whenever a method raises GitError because git exited
\* non-zero, the GitError carries the text git wrote to stderr.
C2_GitErrorCarriesStderr ==
    (last.op \in GitMethods /\ SomeRunFailed /\ last.outcome = "GitError") =>
        \E k \in 1..Len(last.payload) : Contains(last.payload[k], LastRun.err)

\* C3: Git(path) constructs an object exactly when realpath(path)/.git is a
\* directory (bare=False, gitdir=realpath(path)/.git) or, otherwise,
\* realpath(path) ends with ".git" and holds the directories refs and objects
\* (bare=True, gitdir=realpath(path)); it raises GitError otherwise; gitdir of a
\* constructed object is a directory, and bare holds iff gitdir equals path.
C3_Construction ==
    last.op = "Git" =>
        LET p == realpath(last.args[1].v, last.cwd0)
            ns == Components(p)
            in(name) == Render(Append(ns, name)) \in dirs
            nonbare == in(DotGit)
            bare == /\ ~nonbare
                    /\ ns # <<>>
                    /\ EndsWith(ns[Len(ns)], DotGit)
                    /\ in(Refs)
                    /\ in(Objects)
        IN  /\ last.outcome = "return" <=> (nonbare \/ bare)
            /\ last.outcome \in {"return", "GitError"}
            /\ nonbare =>
                /\ last.value.t = "Git"
                /\ last.value.v = [path |-> p, bare |-> FALSE,
                                   gitdir |-> Render(Append(ns, DotGit))]
            /\ bare =>
                /\ last.value.t = "Git"
                /\ last.value.v = [path |-> p, bare |-> TRUE, gitdir |-> p]
            /\ last.outcome = "return" =>
                /\ last.value.v.gitdir \in dirs
                /\ last.value.v.bare <=> (last.value.v.gitdir = last.value.v.path)

\* C3 witness: a bare repository was opened through a relative path
C3_Witness ==
    /\ last.op = "Git"
    /\ last.outcome = "return"
    /\ last.value.v.bare
    /\ ~isabs(last.args[1].v)

\* C4 as stated: is_git_repository(path) never raises and returns True exactly
\* when Git(path) would construct.
C4_IsGitRepository ==
    last.op = "is_git_repository" =>
        /\ last.outcome = "return"
        /\ last.value = PyBool(GitInit(last.args[1].v, last.cwd0, dirs) # NoObj)

\* the call the decorator's argument processing is checked on
ArgCall == last.op = "_system" /\ Len(last.args) = 2

\* C5 as stated: a positional str a of a decorated method, its directory part
\* resolved from git.path and its last name kept, is received relative to
\* git.path, with no leading "/", when it is git.path or beneath git.path + "/";
\* any other str (one that only shares the prefix included) is received
\* unchanged; and no exception comes out of the translation.
C5_Translation ==
    (ArgCall /\ last.args[2].t = "str") =>
        LET self == last.self
            a == last.args[2].v
            cut == RFind(a, "/")
            lastname == SliceFrom(a, cut)
            start == IF isabs(a) THEN <<>> ELSE Components(self.path)
            loc == JoinRealPath(start, Components(SubSeq(a, 1, cut)))
                       \o (IF lastname = <<>> THEN <<>> ELSE <<lastname>>)
            repo == Components(self.path)
            beneath == /\ self.path # Sep
                       /\ Len(loc) > Len(repo)
                       /\ SubSeq(loc, 1, Len(repo)) = repo
            rel == SubSeq(loc, Len(repo) + 1, Len(loc))
            relative == JoinWith(rel, Sep)
                            \o (IF lastname = <<>> /\ rel # <<>> THEN Sep ELSE <<>>)
        IN  /\ Len(last.recv) = 2
            /\ last.recv[1] = last.args[1]
            /\ last.recv[2] = PyStr(IF loc = repo \/ beneath THEN relative ELSE a)
            /\ (loc = repo \/ beneath) => ~isabs(last.recv[2].v)
            /\ last.outcome = "GitError" => (last.runs # <<>> /\ LastRun.rc # 0)
            /\ last.outcome \in {"return", "GitError"}

\* C6 as stated: in a call whose command word is translated without an
\* exception, a positional argument that is no str is received as its string
\* form, except None, True and False, which are received unchanged.
C6_Stringified ==
    (ArgCall /\ TryRelative(last.self, last.args[1].v).exc = "") =>
        /\ last.args[2].t \in {"none", "bool"} =>
                Len(last.recv) = 2 /\ last.recv[2] = last.args[2]
        /\ last.args[2].t = "int" =>
                Len(last.recv) = 2 /\ last.recv[2] = PyStr(last.args[2].v)

\* the entries git status --porcelain reported to the last call
ReportedEntries == FilterNone(Split(LastRun.out, "\n"))

\* the key of files_sorted for the category of a prefix
CategoryOf(prefix) ==
    IF prefix = <<"M", " ", " ">> THEN "uncomitted"
    ELSE IF prefix = <<" ", "M", " ">> THEN "unstaged"
    ELSE IF prefix = <<"?", "?", " ">> THEN "untracked"
    ELSE ""

\* C7 as stated: status_full(simple=True) returns whether git status
\* --porcelain reported nothing; status_full(simple=False) returns a dict in
\* which every entry with prefix "M  ", " M " or "?? " is listed, without its
\* prefix, under its own category, and raises GitError when an entry has another
\* prefix.
C7_StatusFull ==
    (last.op = "status_full" /\ last.runs # <<>> /\ LastRun.rc = 0) =>
        LET known == \A i \in 1..Len(ReportedEntries) :
                        CategoryOf(SubSeq(ReportedEntries[i], 1, 3)) # ""
        IN  IF last.kw = ""
            THEN last.outcome = "return" /\ last.value = PyBool(ReportedEntries = <<>>)
            ELSE IF ~known THEN last.outcome = "GitError"
            ELSE /\ last.outcome = "return"
                 /\ last.value.t = "dict"
                 /\ \A i \in 1..Len(ReportedEntries) :
                        \E k \in 1..Len(last.value.v[CategoryOf(SubSeq(ReportedEntries[i], 1, 3))]) :
                            last.value.v[CategoryOf(SubSeq(ReportedEntries[i], 1, 3))][k]
                                = SliceFrom(ReportedEntries[i], 3)

\* the calls that entered a method decorated with setup
DecoratedCall ==
    /\ last.op \in GitMethods \ {"mktree_empty"}
    /\ ~(last.op \in {"remove_ref", "remove_tag"} /\ last.args[1].t # "str")
    /\ ~(last.op = "update_index_all" /\ Len(last.runs) = 1)

\* C8 as stated: after a call of a decorated method, however it ended, the
\* working directory is the one from before the call.
C8_CwdRestored == DecoratedCall => cwd = last.cwd0

\* C9 as stated: every git subprocess a method of g starts runs with working
\* directory g.path and GIT_DIR g.gitdir, and the call leaves GIT_DIR of the
\* calling process as it was.
C9_Independent ==
    last.op \in GitMethods =>
        /\ \A i \in 1..Len(last.runs) :
                /\ last.runs[i].cwd = last.self.path
                /\ last.runs[i].env = <<last.self.gitdir>>
        /\ environ = last.env0

====
